---- MODULE Spec2Model ----
(***************************************************************************)
(* Model of custom_components/unexpected_matrix_pixels/light.py:           *)
(* UmpDisplayEntity, its service calls (coroutines on one asyncio event    *)
(* loop), the animation task, the transport lock, and the scene renderer.  *)
(***************************************************************************)
EXTENDS Integers, Sequences, FiniteSets, TLC

(***************************************************************************)
(* Bounds of the model.                                                    *)
(***************************************************************************)
\* service calls that may be in progress at the same time
NumCalls == 2
\* service calls invoked in one behaviour
MaxInvocations == 2
\* brightness indicator tasks created in one behaviour
MaxIndicators == 1
\* clock ticks (of 1/TicksPerSecond s) that pass in one behaviour
MaxTime == 1

\* the clock is read in quarters of a second
TicksPerSecond == 4

\* a field value that int()/tuple() or the pixel access rejects
Malformed == 0 - 1000

(***************************************************************************)
(* Display configuration (UmpDisplayEntity.__init__).                      *)
(***************************************************************************)
Width == 9
Height == 2

Pix == (0 .. Width - 1) \X (0 .. Height - 1)

Min(a, b) == IF a < b THEN a ELSE b
Max(a, b) == IF a > b THEN a ELSE b

(***************************************************************************)
(* Text: a string is a sequence of one-character strings.                  *)
(***************************************************************************)
DigitChars == <<"0", "1", "2", "3", "4", "5", "6", "7", "8", "9">>

Ord(ch) ==
    CASE ch = " " -> 32
      [] \E d \in 1 .. 10 : DigitChars[d] = ch ->
           47 + (CHOOSE d \in 1 .. 10 : DigitChars[d] = ch)
      [] ch = "a" -> 97
      [] ch = "b" -> 98
      [] ch = "A" -> 260      \* stands for U+0104, a REPLACE_CHARS key
      [] OTHER -> 8364        \* a character beyond every font table

\* sanitize_text: str.translate(TRANS_TABLE)
sanitize_text(text) ==
    [i \in DOMAIN text |-> IF text[i] = "A" THEN "a" ELSE text[i]]

(***************************************************************************)
(* Font tables (fonts.py).  Column bytes of the two fixed-width fonts and  *)
(* the glyph descriptors and bitmap bytes of the variable-width font, for  *)
(* the characters of the model.                                            *)
(***************************************************************************)
FontTableChars == 128

\* FONT_3X5_DATA / FONT_5X7_DATA [code * stride + col]
FontByte(font_name, code, col) ==
    IF code = 32 THEN 0
    ELSE IF code = 97 THEN (IF col = 1 THEN 2 ELSE 3)
    ELSE IF code = 98 THEN (IF col = 0 THEN 3 ELSE 1)
    ELSE (code + col) % 4

FontDataLen(font_name) ==
    IF font_name = "3x5" THEN FontTableChars * 3 ELSE FontTableChars * 7

\* AWTRIX_GLYPHS[glyph_idx] = (bo, w, h, adv, xo, yo)
AWTRIX_GLYPHS_LEN == 95
AwtrixGlyph(glyph_idx) ==
    IF glyph_idx = 0 THEN [bo |-> 0, w |-> 0, h |-> 0, adv |-> 2, xo |-> 0, yo |-> 0]
    ELSE IF glyph_idx = 65 THEN [bo |-> 0, w |-> 3, h |-> 2, adv |-> 4, xo |-> 0, yo |-> -5]
    ELSE [bo |-> 1, w |-> 2, h |-> 2, adv |-> 3, xo |-> 1, yo |-> -5]

AWTRIX_BITMAPS_LEN == 2
AwtrixBitmap(idx) == IF idx = 0 THEN 184 ELSE 144

Bit(byte, k) == (byte \div (2 ^ k)) % 2

\* _get_char_mask: [has_mask, mask |-> the set of covered (xx, yy), advance]
get_char_mask(font_name, ch) ==
    LET code == Ord(ch) IN
    IF font_name = "awtrix" THEN
        IF 32 <= code /\ code <= 126 THEN
            LET glyph_idx == code - 32 IN
            IF glyph_idx < AWTRIX_GLYPHS_LEN THEN
                LET g == AwtrixGlyph(glyph_idx) IN
                IF g.w > 0 /\ g.h > 0 THEN
                    [has_mask |-> TRUE,
                     mask |-> {<<xx, yy>> \in (0 .. g.w - 1) \X (0 .. g.h - 1) :
                                 LET bit_counter == yy * g.w + xx
                                     idx == g.bo + (bit_counter \div 8)
                                     bits == IF idx < AWTRIX_BITMAPS_LEN
                                             THEN AwtrixBitmap(idx) ELSE 0
                                 IN Bit(bits, 7 - (bit_counter % 8)) = 1},
                     advance |-> g.adv]
                ELSE [has_mask |-> FALSE, mask |-> {}, advance |-> 4]
            ELSE [has_mask |-> FALSE, mask |-> {}, advance |-> 4]
        ELSE [has_mask |-> FALSE, mask |-> {}, advance |-> 4]
    ELSE
        LET char_w == IF font_name = "3x5" THEN 3 ELSE 5
            char_h == IF font_name = "3x5" THEN 5 ELSE 7
            stride == IF font_name = "3x5" THEN 3 ELSE 7
        IN
        IF code * stride < FontDataLen(font_name) THEN
            [has_mask |-> TRUE,
             mask |-> {<<col, row>> \in (0 .. Min(char_w, stride) - 1) \X (0 .. char_h - 1) :
                         Bit(FontByte(font_name, code, col), row) = 1},
             advance |-> char_w]
        ELSE [has_mask |-> FALSE, mask |-> {}, advance |-> char_w]

measure_char_width(ch, font_name) == get_char_mask(font_name, ch).advance

ExtraSpace(font_name, spacing) ==
    IF font_name = "awtrix" THEN spacing - 1 ELSE spacing

RECURSIVE MeasureFrom(_, _, _, _)
MeasureFrom(text, i, font_name, spacing) ==
    IF i > Len(text) THEN 0
    ELSE measure_char_width(text[i], font_name)
         + (IF i < Len(text) THEN ExtraSpace(font_name, spacing) ELSE 0)
         + MeasureFrom(text, i + 1, font_name, spacing)

\* _measure_text_width
measure_text_width(text, font_name, spacing) ==
    IF text = <<>> THEN 0 ELSE MeasureFrom(text, 1, font_name, spacing)


(***************************************************************************)
(* Word wrapping.                                                          *)
(***************************************************************************)
RECURSIVE SplitFrom(_, _, _)
\* str.split(' '): the words between single spaces, empty words included
SplitFrom(text, i, word) ==
    IF i > Len(text) THEN <<word>>
    ELSE IF text[i] = " " THEN <<word>> \o SplitFrom(text, i + 1, <<>>)
    ELSE SplitFrom(text, i + 1, Append(word, text[i]))

Split(text) == SplitFrom(text, 1, <<>>)

RECURSIVE Join(_)
\* " ".join(words)
Join(words) ==
    IF words = <<>> THEN <<>>
    ELSE IF Len(words) = 1 THEN words[1]
    ELSE words[1] \o <<" ">> \o Join(Tail(words))

RECURSIVE WrapFrom(_, _, _, _, _, _, _, _)
\* the loop of _get_text_lines over words[i..]
WrapFrom(words, i, lines, current_line, current_line_width, font_name, spacing, max_width) ==
    IF i > Len(words) THEN
        IF current_line # <<>> THEN Append(lines, Join(current_line)) ELSE lines
    ELSE
        LET word == words[i]
            word_width == measure_text_width(word, font_name, spacing)
            space_width == measure_char_width(" ", font_name)
            actual_space_px == space_width + ExtraSpace(font_name, spacing)
            new_width == current_line_width + actual_space_px + word_width
        IN
        IF current_line = <<>> THEN
            WrapFrom(words, i + 1, lines, <<word>>, word_width,
                     font_name, spacing, max_width)
        ELSE IF new_width <= max_width THEN
            WrapFrom(words, i + 1, lines, Append(current_line, word), new_width,
                     font_name, spacing, max_width)
        ELSE
            WrapFrom(words, i + 1, Append(lines, Join(current_line)), <<word>>, word_width,
                     font_name, spacing, max_width)

\* the text is wrapped into one line, whatever its width
get_text_lines_OneLine(text, font_name, spacing, max_width) == <<text>>

\* _get_text_lines
get_text_lines(text, font_name, spacing, max_width) ==
    WrapFrom(Split(text), 1, <<>>, <<>>, 0, font_name, spacing, max_width)


(***************************************************************************)
(* Brightness.  An operator that can raise returns [raised, v].            *)
(***************************************************************************)
\* the (c, brightness) pairs at which the double product c * (brightness / 255.0)
\* falls just below the integer c * brightness / 255
FloatLoss ==
    { <<51, 155>>, <<75, 187>>, <<85, 147>>, <<85, 171>>, <<102, 155>>, <<150, 187>>,
      <<153, 155>>, <<153, 195>>, <<165, 187>>, <<170, 147>>, <<170, 171>>, <<204, 155>> }

\* int(c * scale) with scale = brightness / 255.0
ScaleChannel(c, b) ==
    ((c * b) \div 255) - (IF <<c, b>> \in FloatLoss THEN 1 ELSE 0)

HasBadChannel(color) == \E i \in DOMAIN color : color[i] = Malformed

\* _apply_brightness_to_color
apply_brightness_to_color(color, b) ==
    IF b = 255 THEN [raised |-> FALSE, v |-> color]
    ELSE IF \E i \in 1 .. Min(3, Len(color)) : color[i] = Malformed
         THEN [raised |-> TRUE, v |-> color]
    ELSE [raised |-> FALSE,
          v |-> [i \in DOMAIN color |->
                   IF i <= 3 THEN ScaleChannel(color[i], b) ELSE color[i]]]

\* _apply_brightness_to_image (the image is RGBA: convert("RGBA") at fetch time)
apply_brightness_to_image(img, b) ==
    IF b = 255 THEN img
    ELSE [img EXCEPT !.px =
            [q \in DOMAIN img.px |->
               <<ScaleChannel(img.px[q][1], b), ScaleChannel(img.px[q][2], b),
                 ScaleChannel(img.px[q][3], b), img.px[q][4]>>]]

(***************************************************************************)
(* Drawing on the canvas: a function from Pix to RGBA tuples.              *)
(***************************************************************************)
\* Image.paste(color, (draw_x, draw_y), mask) with a mode-'1' mask
PasteMask(canvas, color, draw_x, draw_y, mask) ==
    [q \in Pix |-> IF <<q[1] - draw_x, q[2] - draw_y>> \in mask THEN color ELSE canvas[q]]

RECURSIVE CharLoopFrom(_, _, _, _, _, _, _, _)
CharLoopFrom(canvas, content, i, cursor_x, y, color, font_name, spacing) ==
    IF i > Len(content) THEN canvas
    ELSE
        LET ch == content[i]
            cm == get_char_mask(font_name, ch)
            code == Ord(ch)
            shifted == font_name = "awtrix" /\ 32 <= code /\ code <= 126
                       /\ code - 32 < AWTRIX_GLYPHS_LEN
            draw_x == IF shifted THEN cursor_x + AwtrixGlyph(code - 32).xo ELSE cursor_x
            draw_y == IF shifted THEN y + 5 + AwtrixGlyph(code - 32).yo ELSE y
            \* paste of a colour with a non-numeric channel raises and is passed over
            pasted == IF ~cm.has_mask \/ HasBadChannel(color) THEN canvas
                      ELSE PasteMask(canvas, color, draw_x, draw_y, cm.mask)
        IN CharLoopFrom(pasted, content, i + 1,
                        cursor_x + cm.advance + ExtraSpace(font_name, spacing),
                        y, color, font_name, spacing)

\* _draw_char_loop
draw_char_loop(canvas, content, x, y, color, font_name, spacing) ==
    CharLoopFrom(canvas, content, 1, x, y, color, font_name, spacing)

WithAlpha(color) == IF Len(color) = 3 THEN color \o <<255>> ELSE color

\* _draw_text_element: [raised, v |-> canvas]
draw_text_element(canvas, el, b) ==
    IF el.x = Malformed \/ el.y = Malformed \/ el.spacing = Malformed
    THEN [raised |-> TRUE, v |-> canvas]
    ELSE
        LET c == apply_brightness_to_color(el.color, b) IN
        IF c.raised THEN [raised |-> TRUE, v |-> canvas]
        ELSE [raised |-> FALSE,
              v |-> draw_char_loop(canvas, el.content, el.x, el.y, WithAlpha(c.v),
                                   el.font, el.spacing)]

\* int() of the quotient n / d of integers, d > 0 (truncation toward zero)
TruncDiv(n, d) == IF n >= 0 THEN n \div d ELSE 0 - ((0 - n) \div d)

\* _draw_textscroll_element; t is time.time() in ticks
draw_textscroll_element(canvas, el, b, t) ==
    IF el.content = <<>> THEN [raised |-> FALSE, v |-> canvas]
    ELSE IF el.spacing = Malformed \/ el.speed = Malformed
    THEN [raised |-> TRUE, v |-> canvas]
    ELSE
        LET text_width == measure_text_width(el.content, el.font, el.spacing)
            total_distance == Width + text_width
            \* offset = (time.time() * speed) % total_distance, in 1/TicksPerSecond pixels
            offset == (t * el.speed) % (TicksPerSecond * total_distance)
            x == TruncDiv(TicksPerSecond * Width - offset, TicksPerSecond)
        IN
        IF text_width < 1 THEN [raised |-> FALSE, v |-> canvas]
        ELSE draw_text_element(canvas, [el EXCEPT !.type = "text", !.x = x], b)


\* (line_idx + 1) % num_lines
NextIdx(line_idx, num_lines) == (line_idx + 1) % num_lines

\* the text elements _draw_textlong_element hands to _draw_text_element, in order,
\* for num_lines > 1: [raised, v |-> <<draw_curr>> or <<draw_curr, draw_next>>];
\* speed and scroll_duration are in ticks, t is time.time()
textlong_draws(el, t) ==
    LET lines == el.cached_lines
        line_h == IF el.font = "3x5" THEN 6 ELSE 8
        num_lines == Len(lines)
        cycle_time == el.speed + el.scroll_duration
        total_time == cycle_time * num_lines
    IN
    IF cycle_time = 0 THEN [raised |-> TRUE, v |-> <<>>]   \* float modulo by zero
    ELSE
    LET current_time_in_cycle == t % total_time
        line_idx == current_time_in_cycle \div cycle_time
        time_in_phase == current_time_in_cycle % cycle_time
        next_idx == NextIdx(line_idx, num_lines)
        draw_curr == [el EXCEPT !.type = "text", !.content = lines[line_idx + 1]]
        draw_next == [el EXCEPT !.type = "text", !.content = lines[next_idx + 1]]
    IN
    IF time_in_phase < el.speed THEN [raised |-> FALSE, v |-> <<draw_curr>>]
    ELSE
        \* int(anim_progress * step), anim_progress = (time_in_phase - speed) / scroll_duration
        LET offset_y == ((time_in_phase - el.speed) * line_h) \div el.scroll_duration
            offset_x == ((time_in_phase - el.speed) * Width) \div el.scroll_duration
        IN
        [raised |-> FALSE,
         v |-> CASE el.direction = "up" ->
                      <<[draw_curr EXCEPT !.y = el.y - offset_y],
                        [draw_next EXCEPT !.y = el.y + line_h - offset_y]>>
                 [] el.direction = "down" ->
                      <<[draw_curr EXCEPT !.y = el.y + offset_y],
                        [draw_next EXCEPT !.y = el.y - line_h + offset_y]>>
                 [] el.direction = "left" ->
                      <<[draw_curr EXCEPT !.x = el.x - offset_x],
                        [draw_next EXCEPT !.x = el.x + Width - offset_x]>>
                 [] el.direction = "right" ->
                      <<[draw_curr EXCEPT !.x = el.x + offset_x],
                        [draw_next EXCEPT !.x = el.x - Width + offset_x]>>
                 [] OTHER -> <<draw_curr, draw_next>>]

RECURSIVE DrawTextsFrom(_, _, _, _)
\* the calls of _draw_text_element in order; an exception of one leaves the element
DrawTextsFrom(canvas, draws, i, b) ==
    IF i > Len(draws) THEN [raised |-> FALSE, v |-> canvas]
    ELSE IF draw_text_element(canvas, draws[i], b).raised
    THEN [raised |-> TRUE, v |-> draw_text_element(canvas, draws[i], b).v]
    ELSE DrawTextsFrom(draw_text_element(canvas, draws[i], b).v, draws, i + 1, b)

\* _draw_textlong_element
draw_textlong_element(canvas, el, b, t) ==
    IF el.cached_lines = <<>> THEN [raised |-> FALSE, v |-> canvas]
    ELSE IF el.x = Malformed \/ el.y = Malformed
            \/ el.speed = Malformed \/ el.scroll_duration = Malformed
    THEN [raised |-> TRUE, v |-> canvas]
    ELSE IF Len(el.cached_lines) = 1 THEN
        draw_text_element(canvas, [el EXCEPT !.type = "text",
                                             !.content = el.cached_lines[1]], b)
    ELSE IF textlong_draws(el, t).raised THEN [raised |-> TRUE, v |-> canvas]
    ELSE DrawTextsFrom(canvas, textlong_draws(el, t).v, 1, b)

\* a pixel entry the pixel access accepts: numeric fields, coordinates on the layer
\* (a negative coordinate counts from the far edge)
PixelOk(p) ==
    /\ \A i \in 1 .. Len(p) : p[i] # Malformed
    /\ (IF p[1] < 0 THEN p[1] + Width ELSE p[1]) \in 0 .. Width - 1
    /\ (IF p[2] < 0 THEN p[2] + Height ELSE p[2]) \in 0 .. Height - 1

PixelPos(p) ==
    <<IF p[1] < 0 THEN p[1] + Width ELSE p[1], IF p[2] < 0 THEN p[2] + Height ELSE p[2]>>

RECURSIVE PixelLoopFrom(_, _, _, _)
\* the loop of _draw_pixels_element inside its try: the layer when the loop ends or raises
PixelLoopFrom(layer, pixels, i, b) ==
    IF i > Len(pixels) THEN layer
    ELSE
        LET p == pixels[i] IN
        IF Len(p) >= 5 THEN
            IF ~PixelOk(p) THEN layer
            ELSE
                LET pixel_color == apply_brightness_to_color(<<p[3], p[4], p[5]>>, b).v
                    alpha == IF Len(p) > 5 THEN p[6] ELSE 255
                IN PixelLoopFrom(
                       [layer EXCEPT ![PixelPos(p)] =
                          <<pixel_color[1], pixel_color[2], pixel_color[3], alpha>>],
                       pixels, i + 1, b)
        ELSE PixelLoopFrom(layer, pixels, i + 1, b)

\* Image.alpha_composite for source pixels that are opaque (255) or transparent (0)
alpha_composite(canvas, layer) ==
    [q \in Pix |-> IF layer[q][4] = 0 THEN canvas[q] ELSE layer[q]]

\* _draw_pixels_element
draw_pixels_element(canvas, el, b) ==
    IF el.pixels = <<>> THEN [raised |-> FALSE, v |-> canvas]
    ELSE
        LET layer == PixelLoopFrom([q \in Pix |-> <<0, 0, 0, 0>>], el.pixels, 1, b)
        IN [raised |-> FALSE, v |-> alpha_composite(canvas, layer)]

\* _draw_mdi_element with the icon metadata not loaded (_mdi_ready False)
draw_mdi_element(canvas, el) == [raised |-> FALSE, v |-> canvas]

\* the image branch of _render_canvas_sync: canvas.paste(img, (x, y), img)
draw_image_element(canvas, el, b) ==
    IF el.x = Malformed \/ el.y = Malformed THEN [raised |-> TRUE, v |-> canvas]
    ELSE
        LET img == apply_brightness_to_image(el.cached_img, b) IN
        [raised |-> FALSE,
         v |-> [q \in Pix |->
                  LET s == <<q[1] - el.x, q[2] - el.y>> IN
                  IF s \in DOMAIN img.px /\ img.px[s][4] # 0 THEN img.px[s]
                  ELSE canvas[q]]]

\* one iteration of the element loop of _render_canvas_sync, before its except
DrawElement(canvas, el, b, t) ==
    CASE el.type = "text"       -> draw_text_element(canvas, el, b)
      [] el.type = "textscroll" -> draw_textscroll_element(canvas, el, b, t)
      [] el.type = "textlong"   -> draw_textlong_element(canvas, el, b, t)
      [] el.type = "pixels"     -> draw_pixels_element(canvas, el, b)
      [] el.type = "icon"       -> draw_mdi_element(canvas, el)
      [] el.type = "image" /\ el.has_cached_img -> draw_image_element(canvas, el, b)
      [] OTHER -> [raised |-> FALSE, v |-> canvas]

RECURSIVE ElementLoopFrom(_, _, _, _, _)
\* the element loop: an exception of one element is caught and the loop goes on
ElementLoopFrom(canvas, elements, i, b, t) ==
    IF i > Len(elements) THEN canvas
    ELSE ElementLoopFrom(DrawElement(canvas, elements[i], b, t).v, elements, i + 1, b, t)

\* final_image.paste(canvas, (0, 0), mask=canvas) on a black RGB image
Flatten(canvas) ==
    [q \in Pix |-> IF canvas[q][4] = 0 THEN <<0, 0, 0>>
                   ELSE <<canvas[q][1], canvas[q][2], canvas[q][3]>>]

\* _render_canvas_sync: [raised, v |-> the RGB frame]
render_canvas_sync(elements, background, b, t) ==
    LET bg == apply_brightness_to_color(background, b) IN
    IF bg.raised \/ HasBadChannel(bg.v)
    THEN [raised |-> TRUE, v |-> [q \in Pix |-> <<0, 0, 0>>]]
    ELSE [raised |-> FALSE,
          v |-> Flatten(ElementLoopFrom([q \in Pix |-> WithAlpha(bg.v)], elements, 1, b, t))]

\* canvas.save(format='PNG', compress_level=0): the pixels in row-major order
PngBytes(frame) ==
    [k \in 1 .. Width * Height |-> frame[<<(k - 1) % Width, (k - 1) \div Width>>]]


(***************************************************************************)
(* Scenes submitted to draw_matrix.  An element carries every field the    *)
(* renderer reads (the defaults of el.get filled in).                      *)
(***************************************************************************)
NoImage == [w |-> 0, h |-> 0, px |-> [q \in {} |-> <<0, 0, 0, 0>>]]

El(type) ==
    [type |-> type, content |-> <<>>, x |-> 0, y |-> 0, color |-> <<255, 255, 255>>,
     font |-> "5x7", spacing |-> 1,
     speed |-> IF type = "textscroll" THEN 10 ELSE 2 * TicksPerSecond,
     scroll_duration |-> TicksPerSecond \div 2, direction |-> "up",
     pixels |-> <<>>, cached_lines |-> <<>>, has_cached_img |-> FALSE,
     cached_img |-> NoImage]


\* the image a successful fetch yields: Image.open(...).convert("RGBA")
FetchedImage == [w |-> 1, h |-> 1, px |-> [q \in {<<0, 0>>} |-> <<255, 0, 0, 255>>]]

Scene(elements) == [elements |-> elements, background |-> <<0, 0, 0>>]

\* the scenes a caller of draw_matrix submits in this model
Scenes ==
    << \* 1: one fixed text
       Scene(<<[El("text") EXCEPT !.content = <<"A">>, !.font = "3x5"]>>),
       \* 2: a textlong that wraps to one line (the same frame as scene 1)
       Scene(<<[El("textlong") EXCEPT !.content = <<"a">>, !.font = "3x5"]>>),
       \* 3: a scrolling text
       Scene(<<[El("textscroll") EXCEPT !.content = <<"b">>, !.font = "3x5"]>>),
       \* 4: a textlong that wraps to two lines
       Scene(<<[El("textlong") EXCEPT !.content = <<"a", " ", "b">>, !.font = "3x5"]>>),
       \* 5: an image (fetched during pre-processing) under a pixel
       Scene(<<[El("image") EXCEPT !.x = 1],
               [El("pixels") EXCEPT !.pixels = << <<0, 0, 0, 255, 0>> >>]>>) >>

SceneIds == 1 .. Len(Scenes)

\* the pre-processing loop of async_draw_matrix, given the set of element indices
\* whose image fetch yielded an image
Preprocess(elements, got) ==
    [i \in DOMAIN elements |->
       LET el == elements[i]
           new_el == [el EXCEPT !.content = sanitize_text(el.content)]
           with_img == IF new_el.type = "image" /\ i \in got
                       THEN [new_el EXCEPT !.has_cached_img = TRUE,
                                           !.cached_img = FetchedImage]
                       ELSE new_el
       IN IF with_img.type = "textlong"
          THEN [with_img EXCEPT !.cached_lines =
                   get_text_lines(with_img.content, with_img.font, with_img.spacing, Width)]
          ELSE with_img]

\* every textlong element counts as animated, whatever its wrapped lines
HasAnimationFrom_AnyTextlong(processed_elements, i) ==
    \E j \in i .. Len(processed_elements) :
        processed_elements[j].type \in {"textscroll", "textlong"}

RECURSIVE HasAnimationFrom(_, _)
\* the loop "Check for animation requirements" of async_draw_matrix
HasAnimationFrom(processed_elements, i) ==
    IF i > Len(processed_elements) THEN FALSE
    ELSE LET el == processed_elements[i] IN
         IF el.type = "textscroll" THEN TRUE
         ELSE IF el.type = "textlong" /\ Len(el.cached_lines) > 1 THEN TRUE
         ELSE HasAnimationFrom(processed_elements, i + 1)

has_animation(processed_elements) == HasAnimationFrom(processed_elements, 1)

NoArg == 0 - 1
\* the brightness kwarg of async_turn_on (NoArg: not given)
BrightnessArgs == {NoArg, 128}
\* the values self._brightness takes
Brightnesses == {255} \cup (BrightnessArgs \ {NoArg})

\* the element indices of scene s that are image elements
ImageIndices(s) == {i \in DOMAIN Scenes[s].elements : Scenes[s].elements[i].type = "image"}

\* the scenes with the sets of their images that were fetched
FetchedScenes ==
    UNION {{<<s, got>> : got \in SUBSET ImageIndices(s)} : s \in SceneIds}

\* the pixels of a frame, listed
Pixels(frame) == {<<q, frame[q]>> : q \in Pix}
\* the frame of listed pixels
FrameOf(pixels) == [q \in Pix |-> (CHOOSE e \in pixels : e[1] = q)[2]]

\* has_animation of the processed elements: the scenes that are animated
AnimatedScenes ==
    {k \in FetchedScenes : has_animation(Preprocess(Scenes[k[1]].elements, k[2]))}

\* what _render_canvas_sync returns for every scene, brightness and time, computed
\* once: <<scene, fetched images, brightness, time, raised, pixels>>
RenderedEntry(k, b, t, r) == <<k[1], k[2], b, t, r.raised, Pixels(r.v)>>

RenderedScenes ==
    {RenderedEntry(k, b, t,
                   render_canvas_sync(Preprocess(Scenes[k[1]].elements, k[2]),
                                      Scenes[k[1]].background, b, t)) :
        k \in FetchedScenes, b \in Brightnesses, t \in 0 .. MaxTime}

(***************************************************************************)
(* The transport client (ble_client.py): what a completed call leaves in   *)
(* the buffer that get_last_frame returns.                                 *)
(***************************************************************************)
\* send_frame_png succeeded: the buffer is the PNG of the frame sent
client_sent(last, frame) == PngBytes(frame)
\* send_frame_png raised: the buffer keeps its value
client_send_failed(last, frame) == last
\* clear succeeded: the buffer is emptied
client_cleared(last) == <<>>

(***************************************************************************)
(* State.  Service calls, animation tasks and brightness indicator tasks   *)
(* are coroutines of one event loop: `running` is the coroutine that is    *)
(* executing (0 between steps), and a coroutine runs until it suspends.    *)
(***************************************************************************)
Calls == 1 .. NumCalls
\* every draw_matrix call creates at most one animation task
MaxTasks == MaxInvocations
Tasks == 101 .. 100 + MaxTasks
Inds == 201 .. 200 + MaxIndicators
Procs == Calls \cup Tasks \cup Inds

VARIABLES
    is_on,          \* self._is_on
    brightness,     \* self._brightness
    current_mode,   \* self._current_mode: "None" or "0"
    anim_task,      \* self._anim_task: a task, 0 for None
    lock_holder,    \* self._ble_lock: the coroutine inside `async with`, 0 if unlocked
    lock_waiters,   \* self._ble_lock._waiters, in order of arrival
    last_frame,     \* what self._client.get_last_frame() returns (<<>> for None)
    pc,             \* where each coroutine is suspended or executing
    loc,            \* the local variables of each coroutine (see NoLocals)
    must_cancel,    \* Task.cancel() has been called and not yet delivered
    running,        \* the coroutine the event loop is executing
    now,            \* time.time(), in ticks
    invocations,    \* service calls invoked so far
    tasks_made,     \* animation tasks created so far
    inds_made,      \* indicator tasks created so far
    \* history, for stating the properties
    displayed,      \* invocation number of the draw_matrix that last created its task
                    \* or handed its frame to _render_and_send
    max_reached,    \* the largest invocation number `displayed` has had
    mode0_ok,       \* the most recent set_mode(0) succeeded
    cancelled_at,   \* the await at which each task received CancelledError ("" if none)
    retry_lost,     \* a send failed while the buffer already held the bytes of its frame
    quiet,          \* turn_off or clear_display has returned, and neither draw_matrix
                    \* nor turn_on has been invoked since
    \* one call of _render_canvas_sync on its own
    render_elements,  \* its argument `elements`
    render_result,    \* <<>>, or <<what it returned>>
    \* one call of a function of the layout and drawing code on its own
    call_args,        \* its arguments
    call_result       \* <<>>, or <<what it returned>>

vars == <<is_on, brightness, current_mode, anim_task, lock_holder, lock_waiters,
          last_frame, pc, loc, must_cancel, running, now, invocations, tasks_made,
          inds_made, displayed, max_reached, mode0_ok, cancelled_at, retry_lost,
          quiet, render_elements, render_result, call_args, call_result>>

\* the locals of a coroutine that is not running a call or task
NoLocals ==
    [scene |-> 0,          \* elements, background: an index of Scenes
     imgs |-> {},          \* the element indices that carry a _cached_img
     img_idx |-> 0,        \* the image element whose fetch the call awaits
     frame |-> <<>>,       \* PNG bytes of the canvas being sent
     \* history
     inv_no |-> 0,         \* the invocation number of the call
     superseded |-> 0,     \* the task the call cancelled
     renders |-> 0,        \* _render_canvas_sync calls made by the call itself
     made_task |-> FALSE,  \* the call created an animation task
     pwr_failed |-> FALSE, \* set_state(True) raised in the call
     failed |-> FALSE,     \* the last send_frame_png of the task raised
     hush |-> FALSE]       \* the call is turn_off or clear_display, and neither
                           \* draw_matrix nor turn_on has been invoked since it was

\* draw_matrix or turn_on is invoked: no call in flight has the last word any more
Unhush(l) == [q \in Procs |-> [l[q] EXCEPT !.hush = FALSE]]

\* the entity after __init__, but for its brightness
Constructed ==
    /\ is_on = TRUE
    /\ current_mode = "None"
    /\ anim_task = 0
    /\ lock_holder = 0
    /\ lock_waiters = <<>>
    /\ last_frame = <<>>
    /\ pc = [p \in Procs |-> IF p \in Calls THEN "idle" ELSE "none"]
    /\ loc = [p \in Procs |-> NoLocals]
    /\ must_cancel = [p \in Tasks |-> FALSE]
    /\ running = 0
    /\ now = 0
    /\ invocations = 0
    /\ tasks_made = 0
    /\ inds_made = 0
    /\ displayed = 0
    /\ max_reached = 0
    /\ mode0_ok = FALSE
    /\ cancelled_at = [t \in Tasks |-> ""]
    /\ retry_lost = FALSE
    /\ quiet = FALSE

\* no function is being run on its own
NoCall ==
    /\ call_args = <<>>
    /\ call_result = <<>>

Init ==
    /\ Constructed
    /\ brightness = 255
    /\ render_elements = <<>>
    /\ render_result = <<>>
    /\ NoCall

(***************************************************************************)
(* asyncio.Lock (self._ble_lock).                                          *)
(***************************************************************************)
Cancelled(p) == p \in Tasks /\ must_cancel[p]

\* Lock.acquire returns without suspending: unlocked and every waiter cancelled
LockFree ==
    lock_holder = 0 /\ \A i \in DOMAIN lock_waiters : Cancelled(lock_waiters[i])

\* the waiter that release() woke: the first one, if its future is not cancelled
Woken(p) ==
    /\ lock_holder = 0
    /\ lock_waiters # <<>>
    /\ Head(lock_waiters) = p
    /\ ~Cancelled(p)

Without(q, p) == SelectSeq(q, LAMBDA x : x # p)

\* a transport call made without entering `async with self._ble_lock:`
EnterLock_Unlocked(p) == UNCHANGED <<lock_holder, lock_waiters>>

\* `async with self._ble_lock:` entered by the running coroutine p: it holds the lock
\* at once, or joins the waiters and suspends
EnterLock(p) ==
    IF LockFree
    THEN lock_holder' = p /\ lock_waiters' = lock_waiters
    ELSE lock_holder' = lock_holder /\ lock_waiters' = Append(lock_waiters, p)

\* where p is after EnterLock
EnterPc(waitPc, bodyPc) == IF LockFree THEN bodyPc ELSE waitPc

\* the suspended acquire of p returns: p holds the lock
Granted(p, waitPc) ==
    /\ running = 0
    /\ pc[p] = waitPc
    /\ Woken(p)
    /\ lock_holder' = p
    /\ lock_waiters' = Tail(lock_waiters)

\* the end of the `async with` block, on every way out of it
Release == lock_holder' = 0

\* Task.cancel() of self._anim_task
CancelTask(t) ==
    must_cancel' = IF t # 0 /\ pc[t] \notin {"none", "done"}
                   THEN [must_cancel EXCEPT ![t] = TRUE] ELSE must_cancel

\* a service call is invoked: it takes the lowest free call slot
Invoke(p) ==
    /\ running = 0
    /\ pc[p] = "idle"
    /\ \A q \in Calls : q < p => pc[q] # "idle"
    /\ invocations < MaxInvocations
    /\ invocations' = invocations + 1

entity == <<is_on, brightness, current_mode, anim_task>>
counters == <<now, invocations, tasks_made, inds_made>>
history == <<displayed, max_reached, mode0_ok, cancelled_at, retry_lost, quiet>>
renderVars == <<render_elements, render_result, call_args, call_result>>

\* a coroutine waiting for the lock whose body starts with a transport call gets it
GrantedCall(p, waitPc, callPc) ==
    /\ Granted(p, waitPc)
    /\ pc' = [pc EXCEPT ![p] = callPc]
    /\ UNCHANGED <<renderVars, entity, last_frame, loc, must_cancel, running, counters,
                   history>>

(***************************************************************************)
(* async_turn_on                                                           *)
(***************************************************************************)
TurnOn(p, b) ==
    LET spawn == b # NoArg /\ b # brightness
        ind == 201 + inds_made
    IN
    /\ Invoke(p)
    /\ spawn => inds_made < MaxIndicators
    /\ brightness' = IF spawn THEN b ELSE brightness
    /\ inds_made' = IF spawn THEN inds_made + 1 ELSE inds_made
    /\ is_on' = TRUE
    /\ EnterLock(p)
    /\ pc' = [q \in Procs |->
                IF q = p THEN EnterPc("on_lock", "on_state_call")
                ELSE IF spawn /\ q = ind THEN "i_new" ELSE pc[q]]
    /\ loc' = Unhush(loc)
    /\ quiet' = FALSE
    /\ UNCHANGED <<renderVars, current_mode, anim_task, last_frame, must_cancel,
                   running, now, tasks_made, displayed, max_reached, mode0_ok,
                   cancelled_at, retry_lost>>

\* set_state(True) returns or raises
TurnOnStateDone(p, ok) ==
    /\ running = 0
    /\ pc[p] = "on_state_call"
    /\ IF ok
       THEN /\ pc' = [pc EXCEPT ![p] = "on_mode_call"]
            /\ UNCHANGED <<current_mode, lock_holder>>
       ELSE /\ current_mode' = "None"
            /\ Release
            /\ pc' = [pc EXCEPT ![p] = "idle"]
    /\ UNCHANGED <<renderVars, is_on, brightness, anim_task, lock_waiters, last_frame,
                   loc, must_cancel, running, counters, history>>

\* set_mode(0) returns or raises
TurnOnModeDone(p, ok) ==
    /\ running = 0
    /\ pc[p] = "on_mode_call"
    /\ current_mode' = IF ok THEN "0" ELSE "None"
    /\ mode0_ok' = ok
    /\ Release
    /\ pc' = [pc EXCEPT ![p] = "idle"]
    /\ UNCHANGED <<renderVars, is_on, brightness, anim_task, lock_waiters, last_frame,
                   loc, must_cancel, running, counters, displayed, max_reached,
                   cancelled_at, retry_lost, quiet>>

(***************************************************************************)
(* async_turn_off                                                          *)
(***************************************************************************)
TurnOff(p) ==
    /\ Invoke(p)
    /\ CancelTask(anim_task)
    /\ is_on' = FALSE
    /\ EnterLock(p)
    /\ pc' = [pc EXCEPT ![p] = EnterPc("off_lock", "off_call")]
    /\ loc' = [loc EXCEPT ![p].hush = TRUE]
    /\ UNCHANGED <<renderVars, brightness, current_mode, anim_task, last_frame,
                   running, now, tasks_made, inds_made, history>>

\* set_state(False) returns or raises
TurnOffDone(p, ok) ==
    /\ running = 0
    /\ pc[p] = "off_call"
    /\ current_mode' = IF ok THEN "None" ELSE current_mode
    /\ Release
    /\ pc' = [pc EXCEPT ![p] = "idle"]
    /\ quiet' = (quiet \/ loc[p].hush)
    /\ loc' = [loc EXCEPT ![p] = NoLocals]
    /\ UNCHANGED <<renderVars, is_on, brightness, anim_task, lock_waiters, last_frame,
                   must_cancel, running, counters, displayed, max_reached, mode0_ok,
                   cancelled_at, retry_lost>>

(***************************************************************************)
(* async_clear_display                                                     *)
(***************************************************************************)
\* the first transport call of the body: set_mode(0) unless the mode is known to be 0
ClearBodyPc == IF current_mode # "0" THEN "clr_mode_call" ELSE "clr_clear_call"

ClearDisplay(p) ==
    /\ Invoke(p)
    /\ CancelTask(anim_task)
    /\ EnterLock(p)
    /\ pc' = [pc EXCEPT ![p] = EnterPc("clr_lock", ClearBodyPc)]
    /\ loc' = [loc EXCEPT ![p].hush = TRUE]
    /\ UNCHANGED <<renderVars, entity, last_frame, running, now, tasks_made,
                   inds_made, history>>

ClearGranted(p) == GrantedCall(p, "clr_lock", ClearBodyPc)

\* set_mode(0) returns or raises
ClearModeDone(p, ok) ==
    /\ running = 0
    /\ pc[p] = "clr_mode_call"
    /\ mode0_ok' = ok
    /\ IF ok
       THEN /\ current_mode' = "0"
            /\ pc' = [pc EXCEPT ![p] = "clr_clear_call"]
            /\ UNCHANGED <<lock_holder, loc, quiet>>
       ELSE /\ current_mode' = "None"
            /\ Release
            /\ pc' = [pc EXCEPT ![p] = "idle"]
            /\ quiet' = (quiet \/ loc[p].hush)
            /\ loc' = [loc EXCEPT ![p] = NoLocals]
    /\ UNCHANGED <<renderVars, is_on, brightness, anim_task, lock_waiters, last_frame,
                   must_cancel, running, counters, displayed, max_reached,
                   cancelled_at, retry_lost>>

\* clear() returns or raises
ClearClearDone(p, ok) ==
    /\ running = 0
    /\ pc[p] = "clr_clear_call"
    /\ current_mode' = IF ok THEN current_mode ELSE "None"
    /\ last_frame' = IF ok THEN client_cleared(last_frame) ELSE last_frame
    /\ Release
    /\ pc' = [pc EXCEPT ![p] = "idle"]
    /\ quiet' = (quiet \/ loc[p].hush)
    /\ loc' = [loc EXCEPT ![p] = NoLocals]
    /\ UNCHANGED <<renderVars, is_on, brightness, anim_task, lock_waiters,
                   must_cancel, running, counters, displayed, max_reached, mode0_ok,
                   cancelled_at, retry_lost>>

(***************************************************************************)
(* async_sync_time                                                         *)
(***************************************************************************)
SyncTime(p) ==
    /\ Invoke(p)
    /\ EnterLock(p)
    /\ pc' = [pc EXCEPT ![p] = EnterPc("sync_lock", "sync_call")]
    /\ UNCHANGED <<renderVars, entity, last_frame, loc, must_cancel, running, now,
                   tasks_made, inds_made, history>>

\* sync_time() returns or raises
SyncTimeDone(p, ok) ==
    /\ running = 0
    /\ pc[p] = "sync_call"
    /\ Release
    /\ pc' = [pc EXCEPT ![p] = "idle"]
    /\ UNCHANGED <<renderVars, entity, lock_waiters, last_frame, loc, must_cancel,
                   running, counters, history>>

(***************************************************************************)
(* async_draw_matrix                                                       *)
(***************************************************************************)
Elements(p) == Scenes[loc[p].scene].elements

\* the next image element at or after index i, where the pre-processing loop
\* suspends in _fetch_and_process_image; 0 if the loop runs to its end
NextStop(elements, i) ==
    LET stops == {j \in i .. Len(elements) : elements[j].type = "image"}
    IN IF stops = {} THEN 0 ELSE CHOOSE j \in stops : \A k \in stops : j <= k

\* where the pre-processing loop of p gets to from element i on
PreprocessPc(elements, i) == IF NextStop(elements, i) = 0 THEN "d_power" ELSE "d_fetch"

\* the call is invoked and pre-processes up to the first image fetch
DrawMatrix(p, s) ==
    LET els == Scenes[s].elements
        to == PreprocessPc(els, 1)
    IN
    /\ Invoke(p)
    /\ pc' = [pc EXCEPT ![p] = to]
    /\ loc' = Unhush([loc EXCEPT
                          ![p].scene = s,
                          ![p].img_idx = IF to = "d_fetch" THEN NextStop(els, 1) ELSE 0,
                          ![p].inv_no = invocations + 1])
    /\ quiet' = FALSE
    /\ running' = IF to = "d_fetch" THEN 0 ELSE p
    /\ UNCHANGED <<renderVars, entity, lock_holder, lock_waiters, last_frame,
                   must_cancel, now, tasks_made, inds_made, displayed, max_reached,
                   mode0_ok, cancelled_at, retry_lost>>

\* _fetch_and_process_image returns an image (got) or None
DrawFetchDone(p, got) ==
    LET els == Elements(p)
        idx == loc[p].img_idx
        to == PreprocessPc(els, idx + 1)
    IN
    /\ running = 0
    /\ pc[p] = "d_fetch"
    /\ pc' = [pc EXCEPT ![p] = to]
    /\ loc' = [loc EXCEPT ![p].imgs = IF got THEN @ \cup {idx} ELSE @,
                          ![p].img_idx = IF to = "d_fetch" THEN NextStop(els, idx + 1)
                                         ELSE 0]
    /\ running' = IF to = "d_fetch" THEN 0 ELSE p
    /\ UNCHANGED <<renderVars, entity, lock_holder, lock_waiters, last_frame,
                   must_cancel, counters, history>>

\* "1. Ensure powered on"
DrawPower(p) ==
    /\ running = p
    /\ pc[p] = "d_power"
    /\ IF ~is_on
       THEN /\ EnterLock(p)
            /\ pc' = [pc EXCEPT ![p] = EnterPc("d_pwr_lock", "d_pwr_call")]
            /\ running' = 0
       ELSE /\ pc' = [pc EXCEPT ![p] = "d_mode"]
            /\ UNCHANGED <<lock_holder, lock_waiters, running>>
    /\ UNCHANGED <<renderVars, entity, last_frame, loc, must_cancel, counters, history>>

DrawPowerGranted(p) == GrantedCall(p, "d_pwr_lock", "d_pwr_call")

\* set_state(True) returns, or raises and draw_matrix returns
DrawPowerDone(p, ok) ==
    /\ running = 0
    /\ pc[p] = "d_pwr_call"
    /\ Release
    /\ is_on' = IF ok THEN TRUE ELSE is_on
    /\ pc' = [pc EXCEPT ![p] = IF ok THEN "d_mode" ELSE "d_return"]
    /\ loc' = [loc EXCEPT ![p].pwr_failed = ~ok]
    /\ running' = p
    /\ UNCHANGED <<renderVars, brightness, current_mode, anim_task, lock_waiters,
                   last_frame, must_cancel, counters, history>>

\* the body of "2. Ensure Mode 0", entered holding the lock: the transport call,
\* or straight out of the block when the mode is taken to be 0
DrawModeBody(p) ==
    IF current_mode # "0"
    THEN /\ lock_holder' = p
         /\ pc' = [pc EXCEPT ![p] = "d_mode_call"]
         /\ running' = 0
    ELSE /\ lock_holder' = 0
         /\ pc' = [pc EXCEPT ![p] = "d_super"]
         /\ running' = p

DrawMode(p) ==
    /\ running = p
    /\ pc[p] = "d_mode"
    /\ IF LockFree
       THEN DrawModeBody(p) /\ UNCHANGED lock_waiters
       ELSE /\ EnterLock(p)
            /\ pc' = [pc EXCEPT ![p] = "d_mode_lock"]
            /\ running' = 0
    /\ UNCHANGED <<renderVars, entity, last_frame, loc, must_cancel, counters, history>>

DrawModeGranted(p) ==
    /\ running = 0
    /\ pc[p] = "d_mode_lock"
    /\ Woken(p)
    /\ lock_waiters' = Tail(lock_waiters)
    /\ DrawModeBody(p)
    /\ UNCHANGED <<renderVars, entity, last_frame, loc, must_cancel, counters, history>>

\* self._current_mode after set_mode(0) returned (ok) or raised in draw_matrix
ModeAfterDraw(ok) == "0"

\* set_mode(0) returns or raises
DrawModeDone(p, ok) ==
    /\ running = 0
    /\ pc[p] = "d_mode_call"
    /\ current_mode' = ModeAfterDraw(ok)
    /\ mode0_ok' = ok
    /\ Release
    /\ pc' = [pc EXCEPT ![p] = "d_super"]
    /\ running' = p
    /\ UNCHANGED <<renderVars, is_on, brightness, anim_task, lock_waiters, last_frame,
                   loc, must_cancel, counters, displayed, max_reached, cancelled_at,
                   retry_lost, quiet>>

\* the task `if self._anim_task and not self._anim_task.done()` finds, 0 if none
LiveAnimTask == IF anim_task # 0 /\ pc[anim_task] # "done" THEN anim_task ELSE 0

\* cancel the running animation, classify the scene, create the animation task or
\* go on to the static frame
DrawSupersede(p) ==
    LET old == LiveAnimTask
        t == 101 + tasks_made
        animated == <<loc[p].scene, loc[p].imgs>> \in AnimatedScenes
    IN
    /\ running = p
    /\ pc[p] = "d_super"
    /\ CancelTask(old)
    /\ IF animated
       THEN /\ anim_task' = t
            /\ tasks_made' = tasks_made + 1
            /\ pc' = [pc EXCEPT ![p] = "d_return", ![t] = "t_new"]
            /\ loc' = [loc EXCEPT ![t].scene = loc[p].scene, ![t].imgs = loc[p].imgs,
                                  ![p].superseded = old, ![p].made_task = TRUE]
            /\ displayed' = loc[p].inv_no
            /\ max_reached' = Max(max_reached, loc[p].inv_no)
       ELSE /\ anim_task' = IF old # 0 THEN 0 ELSE anim_task
            /\ pc' = [pc EXCEPT ![p] = "d_render"]
            /\ loc' = [loc EXCEPT ![p].superseded = old]
            /\ UNCHANGED <<tasks_made, displayed, max_reached>>
    /\ UNCHANGED <<renderVars, is_on, brightness, current_mode, lock_holder,
                   lock_waiters, last_frame, running, now, invocations, inds_made,
                   mode0_ok, cancelled_at, retry_lost, quiet>>

\* the call returns, or an exception leaves it
DrawReturn(p) ==
    /\ running = p
    /\ pc[p] = "d_return"
    /\ pc' = [pc EXCEPT ![p] = "idle"]
    /\ loc' = [loc EXCEPT ![p] = NoLocals]
    /\ running' = 0
    /\ UNCHANGED <<renderVars, entity, lock_holder, lock_waiters, last_frame,
                   must_cancel, counters, history>>

(***************************************************************************)
(* _render_and_send                                                        *)
(***************************************************************************)
\* canvas = self._render_canvas_sync(elements, background)
RenderedFrame(e) == [raised |-> e[5], v |-> FrameOf(e[6])]

Rendered(p) ==
    RenderedFrame(CHOOSE e \in RenderedScenes :
                    <<e[1], e[2], e[3], e[4]>>
                        = <<loc[p].scene, loc[p].imgs, brightness, now>>)

\* `if last_bytes != new_bytes`: the frame goes to the transport
MustSend(canvas) == last_frame # PngBytes(canvas)

\* the static frame of draw_matrix: render, compare, and enter the lock to send
DrawRendered(p, r) ==
    LET send == ~r.raised /\ MustSend(r.v) IN
    /\ running = p
    /\ pc[p] = "d_render"
    /\ loc' = [loc EXCEPT ![p].renders = @ + 1,
                          ![p].frame = IF send THEN r.v ELSE @]
    /\ IF send
       THEN /\ EnterLock(p)
            /\ pc' = [pc EXCEPT ![p] = EnterPc("d_send_lock", "d_send_call")]
            /\ running' = 0
       ELSE \* the frame is suppressed, or the exception leaves draw_matrix
            /\ pc' = [pc EXCEPT ![p] = "d_return"]
            /\ UNCHANGED <<lock_holder, lock_waiters, running>>
    /\ displayed' = IF r.raised THEN displayed ELSE loc[p].inv_no
    /\ max_reached' = IF r.raised THEN max_reached ELSE Max(max_reached, loc[p].inv_no)
    /\ UNCHANGED <<renderVars, entity, last_frame, must_cancel, counters, mode0_ok,
                   cancelled_at, retry_lost, quiet>>

DrawRender(p) == DrawRendered(p, Rendered(p))

DrawSendGranted(p) == GrantedCall(p, "d_send_lock", "d_send_call")

\* send_frame_png returns, or raises and the exception is caught
SendOutcome(p, ok) ==
    /\ last_frame' = IF ok THEN client_sent(last_frame, loc[p].frame)
                     ELSE client_send_failed(last_frame, loc[p].frame)
    /\ retry_lost' = (retry_lost \/ (~ok /\ last_frame = PngBytes(loc[p].frame)))
    /\ Release

DrawSendDone(p, ok) ==
    /\ running = 0
    /\ pc[p] = "d_send_call"
    /\ SendOutcome(p, ok)
    /\ pc' = [pc EXCEPT ![p] = "d_return"]
    /\ running' = p
    /\ UNCHANGED <<renderVars, entity, lock_waiters, loc, must_cancel, counters,
                   displayed, max_reached, mode0_ok, cancelled_at, quiet>>

(***************************************************************************)
(* _animate_loop                                                           *)
(***************************************************************************)
\* the task starts, or wakes from asyncio.sleep, and runs one iteration up to the
\* point where it suspends
TaskIterated(t, r) ==
    /\ running = 0
    /\ pc[t] \in {"t_new", "t_sleep"}
    /\ ~must_cancel[t]
    /\ IF r.raised
       THEN \* except Exception: the loop is left
            /\ pc' = [pc EXCEPT ![t] = "done"]
            /\ loc' = [loc EXCEPT ![t] = NoLocals]
            /\ UNCHANGED <<lock_holder, lock_waiters>>
       ELSE IF MustSend(r.v)
       THEN /\ EnterLock(t)
            /\ pc' = [pc EXCEPT ![t] = EnterPc("t_send_lock", "t_send_call")]
            /\ loc' = [loc EXCEPT ![t].frame = r.v]
       ELSE /\ pc' = [pc EXCEPT ![t] = "t_sleep"]
            /\ UNCHANGED <<lock_holder, lock_waiters, loc>>
    /\ UNCHANGED <<renderVars, entity, last_frame, must_cancel, running, counters,
                   history>>

TaskIterate(t) == TaskIterated(t, Rendered(t))

TaskSendGranted(t) == GrantedCall(t, "t_send_lock", "t_send_call")

\* send_frame_png returns or raises (caught); the task goes on to asyncio.sleep
TaskSendDone(t, ok) ==
    /\ running = 0
    /\ pc[t] = "t_send_call"
    /\ ~must_cancel[t]
    /\ SendOutcome(t, ok)
    /\ pc' = [pc EXCEPT ![t] = "t_sleep"]
    /\ loc' = [loc EXCEPT ![t].frame = <<>>, ![t].failed = ~ok]
    /\ UNCHANGED <<renderVars, entity, lock_waiters, must_cancel, running, counters,
                   displayed, max_reached, mode0_ok, cancelled_at, quiet>>

\* the awaits of _animate_loop at which CancelledError can be raised in the task
CancelPoints == {"t_new", "t_send_lock", "t_send_call", "t_sleep"}

\* CancelledError leaves the task without releasing the lock it holds
HolderAfterCancel_Held(t) == lock_holder

\* the lock after CancelledError left the `async with` of the task t
HolderAfterCancel(t) == IF lock_holder = t THEN 0 ELSE lock_holder

\* CancelledError is raised in the task at the await it is suspended in (before its
\* first step: the coroutine never runs) and caught by `except asyncio.CancelledError`
TaskCancelled(t) ==
    /\ running = 0
    /\ must_cancel[t]
    /\ pc[t] \in CancelPoints
    /\ lock_holder' = HolderAfterCancel(t)
    /\ lock_waiters' = Without(lock_waiters, t)
    /\ pc' = [pc EXCEPT ![t] = "done"]
    /\ must_cancel' = [must_cancel EXCEPT ![t] = FALSE]
    /\ loc' = [loc EXCEPT ![t] = NoLocals]
    /\ cancelled_at' = [cancelled_at EXCEPT ![t] = pc[t]]
    /\ UNCHANGED <<renderVars, entity, last_frame, running, counters, displayed,
                   max_reached, mode0_ok, retry_lost, quiet>>

(***************************************************************************)
(* _show_brightness_indicator                                              *)
(***************************************************************************)
RECURSIVE Digits(_)
\* f"{percent}"
Digits(n) ==
    IF n < 10 THEN <<DigitChars[n + 1]>>
    ELSE Append(Digits(n \div 10), DigitChars[(n % 10) + 1])

\* the frame `final` of the indicator at brightness b
IndicatorFrame(b) ==
    LET percent == (b * 100) \div 255
        bg_val == b
        text_col_val == IF bg_val > 127 THEN 0 ELSE 255
        text == Digits(percent)
        text_width == measure_text_width(text, "5x7", 1)
        x == (Width - text_width) \div 2
        y == (Height - 7) \div 2
        temp_canvas == draw_char_loop([q \in Pix |-> <<bg_val, bg_val, bg_val, 255>>],
                                      text, x, y,
                                      <<text_col_val, text_col_val, text_col_val, 255>>,
                                      "5x7", 1)
    IN [q \in Pix |-> <<temp_canvas[q][1], temp_canvas[q][2], temp_canvas[q][3]>>]

\* the indicator frame of every brightness, computed once
IndicatorFrames == {<<b, Pixels(IndicatorFrame(b))>> : b \in Brightnesses}

\* the indicator task starts: it renders and enters the lock to send
IndicatorStart(i) ==
    /\ running = 0
    /\ pc[i] = "i_new"
    /\ loc' = [loc EXCEPT ![i].frame =
                 FrameOf((CHOOSE e \in IndicatorFrames : e[1] = brightness)[2])]
    /\ EnterLock(i)
    /\ pc' = [pc EXCEPT ![i] = EnterPc("i_lock", "i_send_call")]
    /\ UNCHANGED <<renderVars, entity, last_frame, must_cancel, running, counters,
                   history>>

IndicatorGranted(i) == GrantedCall(i, "i_lock", "i_send_call")

\* send_frame_png returns or raises (caught); then asyncio.sleep(2.0)
IndicatorSendDone(i, ok) ==
    /\ running = 0
    /\ pc[i] = "i_send_call"
    /\ last_frame' = IF ok THEN client_sent(last_frame, loc[i].frame)
                     ELSE client_send_failed(last_frame, loc[i].frame)
    /\ Release
    /\ pc' = [pc EXCEPT ![i] = "i_sleep"]
    /\ loc' = [loc EXCEPT ![i] = NoLocals]
    /\ UNCHANGED <<renderVars, entity, lock_waiters, must_cancel, running, counters,
                   history>>

\* the sleep ends and the indicator task is done
IndicatorDone(i) ==
    /\ running = 0
    /\ pc[i] = "i_sleep"
    /\ pc' = [pc EXCEPT ![i] = "done"]
    /\ UNCHANGED <<renderVars, entity, lock_holder, lock_waiters, last_frame, loc,
                   must_cancel, running, counters, history>>

(***************************************************************************)
(* The clock.                                                              *)
(***************************************************************************)
Tick ==
    /\ running = 0
    /\ now < MaxTime
    /\ now' = now + 1
    /\ UNCHANGED <<renderVars, entity, lock_holder, lock_waiters, last_frame, pc, loc,
                   must_cancel, running, invocations, tasks_made, inds_made, history>>

Next ==
    \/ \E p \in Calls, b \in BrightnessArgs : TurnOn(p, b)
    \/ \E p \in Calls : GrantedCall(p, "on_lock", "on_state_call")
    \/ \E p \in Calls, ok \in BOOLEAN : TurnOnStateDone(p, ok)
    \/ \E p \in Calls, ok \in BOOLEAN : TurnOnModeDone(p, ok)
    \/ \E p \in Calls : TurnOff(p)
    \/ \E p \in Calls : GrantedCall(p, "off_lock", "off_call")
    \/ \E p \in Calls, ok \in BOOLEAN : TurnOffDone(p, ok)
    \/ \E p \in Calls : ClearDisplay(p)
    \/ \E p \in Calls : ClearGranted(p)
    \/ \E p \in Calls, ok \in BOOLEAN : ClearModeDone(p, ok)
    \/ \E p \in Calls, ok \in BOOLEAN : ClearClearDone(p, ok)
    \/ \E p \in Calls : SyncTime(p)
    \/ \E p \in Calls : GrantedCall(p, "sync_lock", "sync_call")
    \/ \E p \in Calls, ok \in BOOLEAN : SyncTimeDone(p, ok)
    \/ \E p \in Calls, s \in SceneIds : DrawMatrix(p, s)
    \/ \E p \in Calls, got \in BOOLEAN : DrawFetchDone(p, got)
    \/ \E p \in Calls : DrawPower(p)
    \/ \E p \in Calls : DrawPowerGranted(p)
    \/ \E p \in Calls, ok \in BOOLEAN : DrawPowerDone(p, ok)
    \/ \E p \in Calls : DrawMode(p)
    \/ \E p \in Calls : DrawModeGranted(p)
    \/ \E p \in Calls, ok \in BOOLEAN : DrawModeDone(p, ok)
    \/ \E p \in Calls : DrawSupersede(p)
    \/ \E p \in Calls : DrawRender(p)
    \/ \E p \in Calls : DrawSendGranted(p)
    \/ \E p \in Calls, ok \in BOOLEAN : DrawSendDone(p, ok)
    \/ \E p \in Calls : DrawReturn(p)
    \/ \E t \in Tasks : TaskIterate(t)
    \/ \E t \in Tasks : TaskSendGranted(t)
    \/ \E t \in Tasks, ok \in BOOLEAN : TaskSendDone(t, ok)
    \/ \E t \in Tasks : TaskCancelled(t)
    \/ \E i \in Inds : IndicatorStart(i)
    \/ \E i \in Inds : IndicatorGranted(i)
    \/ \E i \in Inds, ok \in BOOLEAN : IndicatorSendDone(i, ok)
    \/ \E i \in Inds : IndicatorDone(i)
    \/ Tick

Spec == Init /\ [][Next]_vars

\* the steps of the coroutine p after its invocation: the event loop resumes it, a
\* transport call or fetch it awaits returns or raises, its sleep ends
StepOf(p) ==
    \/ p \in Calls /\
         \/ GrantedCall(p, "on_lock", "on_state_call")
         \/ GrantedCall(p, "off_lock", "off_call")
         \/ GrantedCall(p, "sync_lock", "sync_call")
         \/ ClearGranted(p) \/ DrawPowerGranted(p) \/ DrawModeGranted(p)
         \/ DrawSendGranted(p)
         \/ DrawPower(p) \/ DrawMode(p) \/ DrawSupersede(p) \/ DrawRender(p)
         \/ DrawReturn(p)
         \/ \E ok \in BOOLEAN :
              \/ TurnOnStateDone(p, ok) \/ TurnOnModeDone(p, ok) \/ TurnOffDone(p, ok)
              \/ ClearModeDone(p, ok) \/ ClearClearDone(p, ok) \/ SyncTimeDone(p, ok)
              \/ DrawFetchDone(p, ok) \/ DrawPowerDone(p, ok) \/ DrawModeDone(p, ok)
              \/ DrawSendDone(p, ok)
    \/ p \in Tasks /\
         \/ TaskIterate(p) \/ TaskSendGranted(p) \/ TaskCancelled(p)
         \/ \E ok \in BOOLEAN : TaskSendDone(p, ok)
    \/ p \in Inds /\
         \/ IndicatorStart(p) \/ IndicatorGranted(p) \/ IndicatorDone(p)
         \/ \E ok \in BOOLEAN : IndicatorSendDone(p, ok)

(***************************************************************************)
(* _render_canvas_sync on its own, on lists of processed elements some of  *)
(* which fail to render.                                                   *)
(***************************************************************************)
MaxElements == 2

TextA == [El("text") EXCEPT !.content = <<"a">>, !.font = "3x5"]

\* the elements the lists are made of
RenderElements ==
    { TextA,
      \* int(el.get('x')) raises
      [TextA EXCEPT !.x = Malformed],
      [El("pixels") EXCEPT !.pixels = << <<1, 0, 0, 255, 0>> >>],
      \* the second pixel lies outside the layer
      [El("pixels") EXCEPT !.pixels = << <<0, 0, 255, 0, 0>>, <<Width, 0, 255, 0, 0>> >>],
      \* the first pixel has a non-numeric channel
      [El("pixels") EXCEPT !.pixels = << <<0, 0, Malformed, 0, 0>> >>],
      \* float(el.get('speed')) raises
      [El("textscroll") EXCEPT !.content = <<"b">>, !.font = "3x5", !.speed = Malformed],
      \* int(el.get('x')) raises
      [El("image") EXCEPT !.has_cached_img = TRUE, !.cached_img = FetchedImage,
                          !.x = Malformed] }

RenderInputs == UNION {[1 .. n -> RenderElements] : n \in 1 .. MaxElements}

RenderBackground == <<0, 0, 0>>

InitRender ==
    /\ Constructed
    /\ brightness \in Brightnesses
    /\ render_elements \in RenderInputs
    /\ render_result = <<>>
    /\ NoCall

RenderCanvas ==
    /\ render_result = <<>>
    /\ render_result' =
         <<render_canvas_sync(render_elements, RenderBackground, brightness, now)>>
    /\ UNCHANGED <<render_elements, call_args, call_result, entity, lock_holder,
                   lock_waiters, last_frame, pc, loc, must_cancel, running, counters,
                   history>>

NextRender == RenderCanvas

SpecRender == InitRender /\ [][NextRender]_vars

(***************************************************************************)
(* Functions of the layout and drawing code on their own: one call, its    *)
(* arguments drawn from the sets below.                                    *)
(***************************************************************************)
\* everything of the entity and its coroutines
machine == <<entity, lock_holder, lock_waiters, last_frame, pc, loc, must_cancel,
             running, counters, history>>

\* the entity after __init__, no call of _render_canvas_sync on its own
Resting ==
    /\ Constructed
    /\ render_elements = <<>>
    /\ render_result = <<>>

MaxTextLen == 3

\* the texts: every string of at most MaxTextLen of the characters a, b and space
WrapTexts == UNION {[1 .. n -> {"a", "b", " "}] : n \in 0 .. MaxTextLen}

InitWrap ==
    /\ Resting
    /\ brightness = 255
    /\ call_args \in [fn : {"get_text_lines"}, text : WrapTexts,
                       font_name : {"3x5", "5x7", "awtrix"}, spacing : {0 - 7, 0, 1},
                       max_width : {2, 10}]
    /\ call_result = <<>>

\* lines = self._get_text_lines(content, font, spacing, max_width)
WrapText ==
    /\ call_result = <<>>
    /\ call_result' = <<get_text_lines(call_args.text, call_args.font_name,
                                       call_args.spacing, call_args.max_width)>>
    /\ UNCHANGED <<render_elements, render_result, call_args, machine>>

SpecWrap == InitWrap /\ [][WrapText]_vars

\* the channel values of the scaling calls
ScaleChannels == {0, 51, 255}

\* the colours: RGB, and RGBA with alpha 0 or 128
ScaleColors ==
    {<<r, g, bl>> : r \in ScaleChannels, g \in ScaleChannels, bl \in ScaleChannels}
    \cup {<<r, g, bl, a>> : r \in ScaleChannels, g \in ScaleChannels,
                            bl \in ScaleChannels, a \in {0, 128}}

\* a colour, or an RGBA image of one pixel, at one of the brightness values
InitScale ==
    /\ Resting
    /\ brightness \in {0, 1, 154, 155, 156, 254, 255}
    /\ call_args \in
          [fn : {"apply_brightness_to_color"}, color : ScaleColors]
          \cup [fn : {"apply_brightness_to_image"},
                img : {[w |-> 1, h |-> 1, px |-> [q \in {<<0, 0>>} |-> c]] :
                          c \in {k \in ScaleColors : Len(k) = 4}}]
    /\ call_result = <<>>

\* self._apply_brightness_to_color(color)
ScaleColor ==
    /\ call_result = <<>>
    /\ call_args.fn = "apply_brightness_to_color"
    /\ call_result' = <<apply_brightness_to_color(call_args.color, brightness).v>>
    /\ UNCHANGED <<render_elements, render_result, call_args, machine>>

\* self._apply_brightness_to_image(img)
ScaleImage ==
    /\ call_result = <<>>
    /\ call_args.fn = "apply_brightness_to_image"
    /\ call_result' = <<apply_brightness_to_image(call_args.img, brightness)>>
    /\ UNCHANGED <<render_elements, render_result, call_args, machine>>

NextScale == ScaleColor \/ ScaleImage

SpecScale == InitScale /\ [][NextScale]_vars

\* the last tick of the clock of the textlong calls
MaxClock == 12

\* textlong elements of two and of three lines; speed and scroll_duration in ticks
TextlongElements ==
    {[El("textlong") EXCEPT !.cached_lines = l, !.font = f, !.direction = d,
                            !.speed = s, !.scroll_duration = sd] :
        l \in {<< <<"a">>, <<"b">> >>, << <<"a">>, <<"b">>, <<"a", "b">> >>},
        f \in {"3x5", "5x7"}, d \in {"up", "down", "left", "right", "diagonal"},
        s \in {0, 2}, sd \in {1, 2}}

InitTextlong ==
    /\ Resting
    /\ brightness = 255
    /\ call_args \in
          [fn : {"draw_textlong_element"}, el : TextlongElements, t : 0 .. MaxClock]
    /\ call_result = <<>>

\* self._draw_textlong_element(canvas, el) at time.time() = t: the text elements it
\* hands to _draw_text_element
DrawTextlong ==
    /\ call_result = <<>>
    /\ call_result' = <<textlong_draws(call_args.el, call_args.t)>>
    /\ UNCHANGED <<render_elements, render_result, call_args, machine>>

SpecTextlong == InitTextlong /\ [][DrawTextlong]_vars

\* the event loop runs every coroutine that is ready, and every awaited transport
\* call, fetch and sleep ends
SpecFair == Init /\ [][Next]_vars /\ \A p \in Procs : WF_vars(StepOf(p))
(***************************************************************************)
(* Properties.                                                             *)
(***************************************************************************)
\* the animation tasks that have been created and are not done
LiveTasks == {t \in Tasks : pc[t] \notin {"none", "done"}}

\* C1: at most one animation task exists at any time, and when draw_matrix has
\* created its animation task or is sending its static frame, the task it
\* cancelled has terminated.
C1_SingleAnimationTask ==
    /\ Cardinality(LiveTasks) <= 1
    /\ \A p \in Calls :
         (pc[p] = "d_send_call" \/ (pc[p] = "d_return" /\ loc[p].made_task))
            => (loc[p].superseded = 0 \/ pc[loc[p].superseded] = "done")

\* every draw_matrix call has returned
AllReturned == running = 0 /\ \A p \in Calls : pc[p] \notin
    {"d_fetch", "d_power", "d_pwr_lock", "d_pwr_call", "d_mode", "d_mode_lock",
     "d_mode_call", "d_super", "d_render", "d_send_lock", "d_send_call", "d_return"}

\* C2: once the draw_matrix calls have returned, the scene on display (the animation
\* task created last, or the frame handed to _render_and_send last) is that of the
\* call invoked last among those that displayed one, never that of an earlier call.
C2_LastInvokedIsDisplayed == AllReturned => displayed = max_reached

\* the coroutines inside send_frame_png on behalf of _render_and_send
Sending == {p \in Calls \cup Tasks : pc[p] \in {"d_send_call", "t_send_call"}}

\* C3: _render_and_send never calls send_frame_png with a frame whose encoded bytes
\* equal the stored last-sent buffer.
C3_IdenticalFrameNotSent == \A p \in Sending : PngBytes(loc[p].frame) # last_frame

\* p is inside a transport call (set_state, set_mode, clear, sync_time, send_frame_png)
InTransportCall(p) ==
    pc[p] \in {"on_state_call", "on_mode_call", "off_call", "clr_mode_call",
               "clr_clear_call", "sync_call", "d_pwr_call", "d_mode_call", "d_send_call",
               "t_send_call", "i_send_call"}

\* p waits for _ble_lock
WaitingForLock(p) ==
    pc[p] \in {"on_lock", "off_lock", "clr_lock", "sync_lock", "d_pwr_lock", "d_mode_lock",
               "d_send_lock", "t_send_lock", "i_lock"}

\* C4: whoever is inside a transport call holds _ble_lock, so at most one coroutine is
\* inside a transport call, and a waiter is not inside one.
C4_TransportUnderLock ==
    /\ \A p \in Procs : InTransportCall(p) => lock_holder = p
    /\ Cardinality({p \in Procs : InTransportCall(p)}) <= 1
    /\ \A i \in DOMAIN lock_waiters : ~InTransportCall(lock_waiters[i])

\* one coroutine is inside a transport call while another waits for the lock
C4_Witness ==
    \E p, q \in Procs : p # q /\ InTransportCall(p) /\ WaitingForLock(q)

\* the lock is held only by a coroutine inside its `async with` block, and only
\* coroutines suspended in acquire() are among the waiters
LockHeldOnlyInside ==
    /\ lock_holder # 0 => InTransportCall(lock_holder)
    /\ \A i \in DOMAIN lock_waiters : WaitingForLock(lock_waiters[i])

\* C5: _ble_lock is never left held by a coroutine that left its `async with` block
\* (a transport call raised, or the animation task was cancelled at any await), and
\* every coroutine waiting for the lock eventually gets it (or, a cancelled task,
\* stops waiting).
C5_LockReleasedOnEveryExit ==
    /\ []LockHeldOnlyInside
    /\ \A p \in Procs : WaitingForLock(p) ~> ~WaitingForLock(p)

\* a task was cancelled inside send_frame_png, holding the lock, and a call that
\* waited for the lock is now inside its transport call
C5_Witness ==
    \E t \in Tasks, p \in Calls :
        /\ cancelled_at[t] = "t_send_call"
        /\ pc[t] = "done"
        /\ lock_holder = p

\* C6: CancelledError is delivered to the animation task only between two frame
\* sends, never while it is inside send_frame_png.
C6_SendNotInterrupted == \A t \in Tasks : cancelled_at[t] # "t_send_call"

\* C7: after send_frame_png failed inside _render_and_send, the stored last-sent
\* buffer differs from the frame that failed, so the next _render_and_send of an
\* identical frame calls the transport again.
C7_FailedFrameIsRetried == ~retry_lost

\* C8: _current_mode is 0 only if the most recent set_mode(0) succeeded.
C8_ModeZeroOnlyIfSet == current_mode = "0" => mode0_ok

\* the scenes with a textscroll element, or a textlong element whose text wraps
\* to more than one line
ScenesWithAnimation ==
    {s \in SceneIds :
       \E i \in DOMAIN Scenes[s].elements :
          LET el == Scenes[s].elements[i] IN
          \/ el.type = "textscroll"
          \/ /\ el.type = "textlong"
             /\ Len(get_text_lines(sanitize_text(el.content), el.font, el.spacing,
                                   Width)) > 1}

\* when draw_matrix returns: it created a task and rendered nothing itself if the
\* scene is animated, created no task and rendered once if not
TaskIffAnimated(p) ==
    IF loc[p].scene \in ScenesWithAnimation
    THEN loc[p].made_task /\ loc[p].renders = 0
    ELSE ~loc[p].made_task /\ loc[p].renders = 1

\* C9 as claimed: draw_matrix starts an animation task if and only if the scene has
\* a textscroll element or a textlong element of more than one line, and otherwise
\* creates no task and renders the frame exactly once.
C9_TaskIffAnimated == \A p \in Calls : pc[p] = "d_return" => TaskIffAnimated(p)

\* C9 as amended: the same of every call that got past the power-on step; a call
\* whose set_state(True) raised returns with no task and nothing rendered.
C9_TaskIffAnimatedWhenPowered ==
    \A p \in Calls :
        pc[p] = "d_return" =>
            IF loc[p].pwr_failed THEN ~loc[p].made_task /\ loc[p].renders = 0
            ELSE TaskIffAnimated(p)

\* a call returns having created the task of a textlong scene of two lines, while
\* another call is about to render the static frame of a one-line textlong scene
C9_Witness ==
    \E p, q \in Calls :
        /\ pc[p] = "d_return" /\ loc[p].made_task /\ loc[p].scene = 4
        /\ pc[q] = "d_send_lock" /\ loc[q].scene = 2 /\ loc[q].renders = 1

\* the rendering of el raises an exception, caught in _render_canvas_sync or in
\* _draw_pixels_element
ElementFails(el) ==
    \/ DrawElement([q \in Pix |-> <<0, 0, 0, 255>>], el, brightness, now).raised
    \/ /\ el.type = "pixels"
       /\ \E i \in DOMAIN el.pixels : Len(el.pixels[i]) >= 5 /\ ~PixelOk(el.pixels[i])

\* C10: _render_canvas_sync returns a frame, and the frame is the one of the list
\* without the elements that fail to render.
C10_FailingElementOmitted ==
    render_result # <<>> =>
        LET kept == SelectSeq(render_elements, LAMBDA el : ~ElementFails(el)) IN
        /\ ~render_result[1].raised
        /\ render_result[1].v =
             render_canvas_sync(kept, RenderBackground, brightness, now).v

(***************************************************************************)
(* Word wrapping                                                           *)
(***************************************************************************)
\* a call of _get_text_lines has returned
Wrapped == call_result # <<>> /\ call_args.fn = "get_text_lines"

RECURSIVE WordsFrom(_, _)
\* the words of the lines from line i on, in order
WordsFrom(lines, i) ==
    IF i > Len(lines) THEN <<>> ELSE Split(lines[i]) \o WordsFrom(lines, i + 1)

\* the measured width of a word of the call
WordWidth(word) == measure_text_width(word, call_args.font_name, call_args.spacing)

\* every word is whole, in order, in exactly one line
WordsKept(lines) ==
    /\ Join(lines) = call_args.text
    /\ WordsFrom(lines, 1) = Split(call_args.text)

\* a word wider than max_width is the only word on its line
WideWordsAlone(lines) ==
    \A i \in DOMAIN lines :
        (\E j \in DOMAIN Split(lines[i]) : WordWidth(Split(lines[i])[j]) > call_args.max_width)
            => Len(Split(lines[i])) = 1

\* the spacing makes neither the step over a space nor the width of a word negative
StepsForward ==
    /\ measure_char_width(" ", call_args.font_name)
           + ExtraSpace(call_args.font_name, call_args.spacing) >= 0
    /\ \A j \in DOMAIN Split(call_args.text) : WordWidth(Split(call_args.text)[j]) >= 0

\* C11 as stated: for every text, font, spacing and max_width, _get_text_lines keeps
\* every word whole and in order in exactly one line (the lines joined with single
\* spaces are the text), and a word wider than max_width is alone on its line.
C11_WordsKeptWideAlone ==
    Wrapped => WordsKept(call_result[1]) /\ WideWordsAlone(call_result[1])

\* C11 amended: _get_text_lines keeps every word whole and in order in exactly one
\* line for every input, and a word wider than max_width is alone on its line
\* whenever the spacing makes neither the step over a space nor a word's width
\* negative.
C11_WordsKeptWideAloneForward ==
    Wrapped => /\ WordsKept(call_result[1])
               /\ StepsForward => WideWordsAlone(call_result[1])

\* a text of several words, one wider than max_width, wrapped into several lines
C11_Witness ==
    /\ Wrapped
    /\ StepsForward
    /\ Len(call_result[1]) > 1
    /\ \E j \in DOMAIN Split(call_args.text) :
           /\ WordWidth(Split(call_args.text)[j]) > call_args.max_width
           /\ Split(call_args.text)[j] # <<>>

\* C16: every line of more than one word that _get_text_lines returns measures at
\* most max_width with _measure_text_width.
C16_MultiWordLineFits ==
    Wrapped =>
        \A i \in DOMAIN call_result[1] :
            Len(Split(call_result[1][i])) > 1
                => measure_text_width(call_result[1][i], call_args.font_name,
                                      call_args.spacing) <= call_args.max_width

(***************************************************************************)
(* Brightness scaling                                                      *)
(***************************************************************************)
\* a call of _apply_brightness_to_color has returned
ScaledColor == call_result # <<>> /\ call_args.fn = "apply_brightness_to_color"

\* a call of _apply_brightness_to_image has returned
ScaledImage == call_result # <<>> /\ call_args.fn = "apply_brightness_to_image"

\* C13: a colour channel c is returned unchanged at brightness 255 and as 0 at
\* brightness 0, never decreases when the brightness grows, and is
\* floor(c * brightness / 255); an alpha channel is returned unchanged.
C13_BrightnessScaling ==
    /\ ScaledColor =>
          /\ Len(call_result[1]) = Len(call_args.color)
          /\ \A i \in 1 .. 3 :
                /\ brightness = 255 => call_result[1][i] = call_args.color[i]
                /\ brightness = 0 => call_result[1][i] = 0
                /\ brightness > 0 =>
                      apply_brightness_to_color(call_args.color, brightness - 1).v[i]
                          <= call_result[1][i]
                /\ call_result[1][i] = (call_args.color[i] * brightness) \div 255
          /\ Len(call_args.color) > 3 => call_result[1][4] = call_args.color[4]
    /\ ScaledImage =>
          \A q \in DOMAIN call_args.img.px : call_result[1].px[q][4] = call_args.img.px[q][4]

(***************************************************************************)
(* The cycle of a textlong element                                         *)
(***************************************************************************)
\* a call of _draw_textlong_element on an element of several lines has drawn
DrawnTextlong ==
    /\ call_result # <<>>
    /\ call_args.fn = "draw_textlong_element"
    /\ ~call_result[1].raised

\* the line of the element el as a text element at (x, y)
LineAt(el, idx, x, y) ==
    [el EXCEPT !.type = "text", !.content = el.cached_lines[idx + 1], !.x = x, !.y = y]

\* the directions a line can move in, with the step of each: <<dx, dy, step>>
Slides(el) ==
    LET line_h == IF el.font = "3x5" THEN 6 ELSE 8 IN
    {<<0, 0 - 1, line_h>>, <<0, 1, line_h>>, <<0 - 1, 0, Width>>, <<1, 0, Width>>}

\* C12: with n >= 2 lines, cycle = speed + scroll_duration and line_index =
\* floor(t / cycle) mod n (the lines in cyclic order): for the first `speed` of a
\* cycle only line line_index is drawn, at (x, y); after that line_index and
\* (line_index + 1) mod n are both drawn, displaced in one direction by the same
\* offset int(progress * step) and one step apart, the incoming line on its way to
\* (x, y).
C12_TextlongCycle ==
    DrawnTextlong =>
        LET el == call_args.el
            n == Len(el.cached_lines)
            cycle == el.speed + el.scroll_duration
            line_index == (call_args.t \div cycle) % n
            phase == call_args.t % cycle
        IN
        IF phase < el.speed
        THEN call_result[1].v = <<LineAt(el, line_index, el.x, el.y)>>
        ELSE \E d \in Slides(el) :
                LET off == ((phase - el.speed) * d[3]) \div el.scroll_duration IN
                call_result[1].v =
                    <<LineAt(el, line_index, el.x + d[1] * off, el.y + d[2] * off),
                      LineAt(el, (line_index + 1) % n,
                             el.x + d[1] * (off - d[3]), el.y + d[2] * (off - d[3]))>>

(***************************************************************************)
(* The animation loop                                                      *)
(***************************************************************************)
\* where a task is once its first iteration has begun
StartedPcs == {"t_send_lock", "t_send_call", "t_sleep"}

\* a started task ends only by cancellation or by an exception of the rendering
EndsOnlyCancelledOrRaised ==
    \A t \in Tasks :
        (pc[t] \in StartedPcs /\ pc'[t] = "done")
            => (must_cancel[t] \/ Rendered(t).raised)

\* a send that ends, failed or not, leaves an uncancelled task in its sleep
SendKeepsLoop ==
    \A t \in Tasks :
        (pc[t] = "t_send_call" /\ pc'[t] # "t_send_call" /\ ~must_cancel[t])
            => pc'[t] = "t_sleep"

\* the iteration after a failed send sends again
FailedSendRetried ==
    \A t \in Tasks :
        (pc[t] = "t_sleep" /\ loc[t].failed /\ ~must_cancel[t])
            => (Rendered(t).raised \/ MustSend(Rendered(t).v))

\* C14: a started _animate_loop ends only when it is cancelled or when rendering
\* raises; a failed send leaves it running, and its next iteration sends again.
C14_LoopSurvivesFailedSend ==
    /\ [][EndsOnlyCancelledOrRaised]_vars
    /\ [][SendKeepsLoop]_vars
    /\ []FailedSendRetried

(***************************************************************************)
(* turn_off and clear_display                                              *)
(***************************************************************************)
\* an animation task that is running and has not been cancelled
RunningTasks ==
    {t \in Tasks : pc[t] \in {"t_new"} \cup StartedPcs /\ ~must_cancel[t]}

\* the coroutines inside send_frame_png, but for a task cancelled meanwhile
FrameSenders ==
    {p \in Calls : pc[p] = "d_send_call"}
    \cup {t \in Tasks : pc[t] = "t_send_call" /\ ~must_cancel[t]}

\* C15: once turn_off or clear_display has returned, and until draw_matrix or
\* turn_on is invoked again, no animation task is running and no frame is sent.
C15_QuietAfterOffOrClear == quiet => RunningTasks = {} /\ FrameSenders = {}
====
